---- MODULE Spec2Model ----
(***************************************************************************)
(* emulisocomp.py: CHDManager, a folder-batch orchestrator that audits the *)
(* files of each selected game folder against a learned extension          *)
(* taxonomy, runs the external converter on the folder's entry file, logs  *)
(* the outcome and deletes the source files on success.                    *)
(*                                                                         *)
(* A file name is the sequence of its dot-separated segments, so           *)
(* "disc.iso" is <<"disc", "iso">> and "..xyz" is <<"", "", "xyz">>.       *)
(* Folder indices are the 0-based indices of the Python code.              *)
(***************************************************************************)
EXTENDS Naturals, Sequences, FiniteSets, TLC

\* Largest number of comma-separated tokens in a selection expression.
MaxTokens == 2

\* Largest integer written in a selection expression of ParseSpec.
MaxIndex == 3

\* Largest number of folders in the folder list of ParseSpec.
MaxFolders == 3

\* Largest number of dot-separated segments of a file name of ClassifySpec.
MaxSegs == 3

\* ------------------------------------------------------------------------
\* Strings and pathlib

\* str.lower on the strings that occur in the model.
Lower(s) ==
    CASE s = "ALL" -> "all"
      [] s = "All" -> "all"
      [] s = "Y" -> "y"
      [] s = "G" -> "g"
      [] s = "S" -> "s"
      [] s = ".CUE" -> ".cue"
      [] s = ".ISO" -> ".iso"
      [] OTHER -> s

Front(s) == SubSeq(s, 1, Len(s) - 1)

Last(s) == s[Len(s)]

InList(x, s) == \E i \in DOMAIN s : s[i] = x

Range(s) == {s[i] : i \in DOMAIN s}

RECURSIVE LStripDots(_)
\* name.lstrip('.') on the segments of a name
LStripDots(segs) ==
    IF Len(segs) > 1 /\ Head(segs) = "" THEN LStripDots(Tail(segs)) ELSE segs

\* PurePath.suffixes (Python 3.11): [] when the name ends with a dot, else
\* the dotted segments after the first one of the name without leading dots.
Suffixes(segs) ==
    IF Len(segs) > 1 /\ Last(segs) = "" THEN <<>>
    ELSE LET t == Tail(LStripDots(segs))
         IN  [i \in 1..Len(t) |-> "." \o t[i]]

\* PurePath.suffix (Python 3.11): name[i:] for i = name.rfind('.') when
\* 0 < i < len(name) - 1, else "".
Suffix(segs) ==
    IF Len(segs) > 1 /\ Last(segs) # "" /\ Front(segs) # <<"">>
    THEN "." \o Last(segs)
    ELSE ""

RECURSIVE JoinLower(_)
\* "".join(suffixes).lower()
JoinLower(ss) ==
    IF ss = <<>> THEN "" ELSE Lower(Head(ss)) \o JoinLower(Tail(ss))

\* PurePath.with_suffix(".chd"): the last suffix replaced, or the suffix
\* added to a name that has none.
WithSuffix(segs, seg) ==
    IF Suffix(segs) = "" THEN Append(segs, seg) ELSE Append(Front(segs), seg)

\* ------------------------------------------------------------------------
\* The taxonomy and its persistent store

Cats == <<"game", "save", "ignore">>

CatSet == Range(Cats)

master_exts == <<".cue", ".gdi", ".cdi", ".iso", ".mds", ".ccd">>

default_data ==
    [game   |-> <<".iso", ".cue", ".bin", ".cdi", ".gdi", ".mdf", ".mds",
                  ".ccd", ".img", ".sub", ".cdi">>,
     save   |-> <<".state", ".state.auto", ".srm", ".bcr", ".bkr", ".smpc",
                  ".vmu", ".state.auto">>,
     ignore |-> <<".url", ".txt", ".pdf", ".jpg", ".png", ".xml", ".db">>]

\* tomlkit.dumps: the document is the [categories] table, one
\* key = [list of strings] line per category, in the table's key order.
Dumps(cfg) == [i \in 1..Len(Cats) |-> <<Cats[i], cfg[Cats[i]]>>]

\* tomlkit.parse: the table rebuilt from the document's lines.
Parse(doc) ==
    [c \in {doc[i][1] : i \in DOMAIN doc} |->
        LET i == CHOOSE j \in DOMAIN doc : doc[j][1] = c IN doc[i][2]]

NoStore == [exists |-> FALSE, text |-> <<>>]

StoreOf(cfg) == [exists |-> TRUE, text |-> Dumps(cfg)]

load_config(st) == IF st.exists THEN Parse(st.text) ELSE default_data

\* ------------------------------------------------------------------------
\* The file tree

File(segs) == [name |-> segs, dir |-> FALSE]

Dir(segs) == [name |-> segs, dir |-> TRUE]

folders == <<"Alpha", "Beta">>

\* Folder names in sorted order: sorted() ranks a name by its place here.
FolderNames == <<"Alpha", "Beta", "Delta", "Gamma", "Omega">>

\* run, line 67: the directories of rom_path, sorted.
SortedDirs(tree) == SelectSeq(FolderNames, LAMBDA n : n \in DOMAIN tree)

\* A taxonomy an earlier run left in the store: .chd learned as game, and
\* .srm both in game and in save.
LearnedData ==
    [game   |-> <<".iso", ".cue", ".bin", ".chd", ".srm">>,
     save   |-> <<".srm", ".state.auto">>,
     ignore |-> <<".txt">>]

InitialStores == {NoStore, StoreOf(LearnedData)}

InitialTrees ==
    { [f \in Range(folders) |-> IF f = "Alpha" THEN t[1] ELSE t[2]] : t \in
        { << {File(<<"disc", "iso">>), File(<<"disc", "bin">>),
              File(<<"mem", "state", "auto">>)},
             {File(<<"mem", "srm">>), Dir(<<"extras">>)} >>,
          << {File(<<"disc", "iso">>), File(<<"disc", "chd">>)},
             {File(<<"", "", "xyz">>)} >>,
          << {File(<<"DISC", "CUE">>), File(<<"README">>)},
             {File(<<"track", "gdi">>), File(<<"game", "v1", "ISO">>)} >>,
          << {File(<<"disc", "iso">>), File(<<"", "", "gdi">>)},
             {} >> } }

RECURSIVE Perms(_)
\* The orders in which iterdir may list a set of entries.
Perms(S) ==
    IF S = {} THEN {<<>>}
    ELSE UNION {{<<e>> \o p : p \in Perms(S \ {e})} : e \in S}

\* ------------------------------------------------------------------------
\* classify (lines 36-43)

\* The extension classify looks up: the lower-cased compound suffix, or
\* the lower-cased final suffix when the compound suffix is empty.
ClassifyExt(segs) ==
    LET ext == JoinLower(Suffixes(segs))
    IN  IF ext = "" THEN Lower(Suffix(segs)) ELSE ext

\* A faulty classify that forgets the ignore category.
classifyNoIgnore(segs, cfg) ==
    LET ext == ClassifyExt(segs)
    IN  IF InList(ext, cfg.game) THEN "game"
        ELSE IF InList(ext, cfg.save) THEN "save"
        ELSE "unknown"

\* A faulty classify that lets the last category holding the extension win.
classifyLastMatch(segs, cfg) ==
    LET ext  == ClassifyExt(segs)
        hits == {i \in DOMAIN Cats : InList(ext, cfg[Cats[i]])}
    IN  IF hits = {} THEN "unknown"
        ELSE Cats[CHOOSE i \in hits : \A j \in hits : i >= j]

\* classify, lines 37-43.
classify(segs, cfg) ==
    LET ext  == ClassifyExt(segs)
        hits == {i \in DOMAIN Cats : InList(ext, cfg[Cats[i]])}
    IN  IF hits = {} THEN "unknown"
        ELSE Cats[CHOOSE i \in hits : \A j \in hits : i <= j]

\* The extension audit_folder appends when it learns a file (line 60).
LearnedExt(segs) == JoinLower(Suffixes(segs))

\* A faulty mapping that leaves an answer it does not know as unknown.
ChoiceCatStrict(choice) ==
    LET c == Lower(choice)
    IN  CASE c = "g" -> "game"
          [] c = "s" -> "save"
          [] c = "i" -> "ignore"
          [] OTHER -> "unknown"

\* mapping.get(choice, "ignore") on the lower-cased answer (lines 57-59)
ChoiceCat(choice) ==
    LET c == Lower(choice)
    IN  CASE c = "g" -> "game"
          [] c = "s" -> "save"
          [] c = "i" -> "ignore"
          [] OTHER -> "ignore"

\* ------------------------------------------------------------------------
\* parse_selection (lines 84-93).  A selection expression is the sequence
\* of its comma-separated parts, each the sequence of its '-'-separated
\* pieces: "1,3-5" is << <<"1">>, <<"3", "5">> >>.

\* The decimal digits: the integers the model writes in a selection.
DigitStr == <<"0", "1", "2", "3", "4", "5", "6", "7", "8", "9">>

IsInt(s) == InList(s, DigitStr)

IntOf(s) == (CHOOSE i \in DOMAIN DigitStr : DigitStr[i] = s) - 1

Failed == [ok |-> FALSE, val |-> <<>>]

Ok(v) == [ok |-> TRUE, val |-> v]

\* A faulty range that leaves out its end.
RangeListExclusive(start, end) ==
    IF end <= start THEN <<>> ELSE [i \in 1..(end - start) |-> start + i - 1]

\* list(range(start, end + 1))
RangeList(start, end) ==
    IF end < start THEN <<>> ELSE [i \in 1..(end + 1 - start) |-> start + i - 1]

\* A faulty parse that passes over a part it cannot read.
PartIndicesLenient(part) ==
    IF Len(part) > 1
    THEN IF Len(part) = 2 /\ IsInt(part[1]) /\ IsInt(part[2])
         THEN Ok(RangeList(IntOf(part[1]), IntOf(part[2])))
         ELSE Ok(<<>>)
    ELSE IF IsInt(part[1]) THEN Ok(<<IntOf(part[1])>>) ELSE Ok(<<>>)

\* The indices one part contributes, or the ValueError of int() or of the
\* unpacking into start, end.
PartIndices(part) ==
    IF Len(part) > 1
    THEN IF Len(part) = 2 /\ IsInt(part[1]) /\ IsInt(part[2])
         THEN Ok(RangeList(IntOf(part[1]), IntOf(part[2])))
         ELSE Failed
    ELSE IF IsInt(part[1]) THEN Ok(<<IntOf(part[1])>>) ELSE Failed

RECURSIVE AllIndices(_)
AllIndices(parts) ==
    IF parts = <<>> THEN Ok(<<>>)
    ELSE LET h == PartIndices(Head(parts))
         IN  IF ~h.ok THEN Failed
             ELSE LET t == AllIndices(Tail(parts))
                  IN  IF ~t.ok THEN Failed ELSE Ok(h.val \o t.val)

RECURSIVE PickFolders(_, _)
\* [folders[i] for i in indices if i < len(folders)]
PickFolders(indices, fl) ==
    IF indices = <<>> THEN <<>>
    ELSE IF Head(indices) < Len(fl)
         THEN <<fl[Head(indices) + 1]>> \o PickFolders(Tail(indices), fl)
         ELSE PickFolders(Tail(indices), fl)

IsAll(selection) ==
    Len(selection) = 1 /\ Len(selection[1]) = 1
        /\ Lower(selection[1][1]) = "all"

parse_selection(selection, fl) ==
    IF IsAll(selection) THEN Ok(fl)
    ELSE LET r == AllIndices(selection)
         IN  IF r.ok THEN Ok(PickFolders(r.val, fl)) ELSE Failed

Tokens ==
    { <<"0">>, <<"1">>, <<"1", "1">>, <<"1", "0">>, <<"5">>, <<"x", "1">>,
      <<"">>, <<"", "1">>, <<"0", "1", "1">>, <<"all">>, <<"ALL">> }

Selections == UNION {[1..n -> Tokens] : n \in 1..MaxTokens}

\* ------------------------------------------------------------------------
\* The operator and the converter.  A captured output text is the sequence
\* of its lines.

Choices == {"g", "G", "s", "i", "x"}

Answers == {"y", "Y", "n", ""}

ConverterResults ==
    { [returncode |-> 0, stdout |-> <<"Compression complete">>,
       stderr |-> <<>>],
      [returncode |-> 1, stdout |-> <<>>,
       stderr |-> <<"Error: file not found">>] }

NoRes == [returncode |-> 0, stdout |-> <<>>, stderr |-> <<>>, wrote |-> FALSE,
          ran |-> FALSE]

EmptyReport == [game |-> <<>>, save |-> <<>>, ignore |-> <<>>, unknown |-> <<>>]

NoFile == File(<<>>)

\* ------------------------------------------------------------------------
\* State

VARIABLES
    fs,          \* folder name -> the entries the folder holds
    store,       \* config.toml
    config,      \* self.config["categories"]
    log,         \* the records appended to the day's log file
    pc,          \* where run() is
    exc,         \* the exception that ended the run, "none" while it runs
    selection,   \* run: the selection expression read, <<>> when not in use
    to_process,  \* run: the parsed selection
    k,           \* run: position in to_process of the folder being processed
    items,       \* audit_folder: the listed items not yet audited
    report,      \* audit_folder: the report being built, then run's report
    answer,      \* run: the operator's answer to the confirmation prompt
    master,      \* convert: the entry file
    res,         \* convert: the completed converter process
    delq,        \* convert: the game files the cleanup loop has yet to unlink
    audited,     \* history: the folders audit_folder was called on, in order
    ninvoked,    \* history: converter invocations that returned
    nprompts,    \* history: category prompts shown
    learned,     \* history: <<extension, category>> of each resolution
    converted    \* history: the folders a conversion that exited 0 returned for

vars ==
    <<fs, store, config, log, pc, exc, selection, to_process, k, items,
      report, answer, master, res, delq, audited, ninvoked, nprompts, learned,
      converted>>

locals == <<items, report, answer, master, res, delq>>

history == <<audited, ninvoked, nprompts, learned, converted>>

\* __init__ (lines 10-19): the taxonomy is loaded; nothing has run yet.
Init ==
    /\ fs \in InitialTrees
    /\ store \in InitialStores
    /\ config = load_config(store)
    /\ log = <<>>
    /\ pc = "select"
    /\ exc = "none"
    /\ selection = <<>>
    /\ to_process = <<>>
    /\ k = 0
    /\ items = <<>>
    /\ report = EmptyReport
    /\ answer = ""
    /\ master = NoFile
    /\ res = NoRes
    /\ delq = <<>>
    /\ audited = <<>>
    /\ ninvoked = 0
    /\ nprompts = 0
    /\ learned = {}
    /\ converted = {}

folder == to_process[k]

\* The for loop of run (line 76) moving to the element after position k:
\* the folder's locals are dropped.
LoopNext ==
    /\ k' = k + 1
    /\ pc' = IF k + 1 > Len(to_process) THEN "done" ELSE "audit_folder"
    /\ items' = <<>>
    /\ report' = EmptyReport
    /\ answer' = ""
    /\ master' = NoFile
    /\ res' = NoRes
    /\ delq' = <<>>

\* run, line 73: the selection expression is read.
Select ==
    /\ pc = "select"
    /\ \E sel \in Selections : selection' = sel
    /\ pc' = "parse"
    /\ UNCHANGED <<fs, store, config, log, exc, to_process, k, locals,
                   history>>

\* run, lines 74-76: the selection is parsed against the sorted folders; a
\* ValueError of parse_selection ends the run.
ParseSelection ==
    /\ pc = "parse"
    /\ LET r == parse_selection(selection, SortedDirs(fs))
       IN  IF r.ok
           THEN /\ to_process' = r.val
                /\ k' = 1
                /\ pc' = IF r.val = <<>> THEN "done" ELSE "audit_folder"
                /\ selection' = <<>>
                /\ exc' = exc
           ELSE /\ pc' = "crashed"
                /\ exc' = "ValueError"
                /\ UNCHANGED <<selection, to_process, k>>
    /\ UNCHANGED <<fs, store, config, log, locals, history>>

\* audit_folder, lines 46-47: the folder is listed, in an order the file
\* system chooses.
AuditFolder ==
    /\ pc = "audit_folder"
    /\ \E order \in Perms(fs[folder]) : items' = order
    /\ report' = EmptyReport
    /\ audited' = Append(audited, folder)
    /\ pc' = "audit_item"
    /\ UNCHANGED <<fs, store, config, log, exc, selection, to_process, k,
                   answer, master, res, delq, ninvoked, nprompts, learned,
                   converted>>

File_(cat, item) == [report EXCEPT ![cat] = Append(@, item)]

\* audit_folder, lines 50-52: a directory goes to ignore.
AuditDir ==
    /\ pc = "audit_item" /\ items # <<>>
    /\ Head(items).dir
    /\ report' = File_("ignore", Head(items))
    /\ items' = Tail(items)
    /\ UNCHANGED <<fs, store, config, log, pc, exc, selection, to_process, k,
                   answer, master, res, delq, history>>

\* audit_folder, lines 54 and 63: a file of a known extension is filed.
AuditKnown ==
    /\ pc = "audit_item" /\ items # <<>>
    /\ ~Head(items).dir
    /\ classify(Head(items).name, config) # "unknown"
    /\ report' = File_(classify(Head(items).name, config), Head(items))
    /\ items' = Tail(items)
    /\ UNCHANGED <<fs, store, config, log, pc, exc, selection, to_process, k,
                   answer, master, res, delq, history>>

\* A faulty save_config that leaves the write for later.
save_configDeferred(cfg) == store

\* save_config (lines 33-34) when the write succeeds.
save_config(cfg) == StoreOf(cfg)

\* audit_folder, lines 55-63: the operator is asked, the extension is
\* appended to the chosen category and the taxonomy is saved; an OSError of
\* write_text is not caught and ends the run (the store is then taken to be
\* left as it was).
AuditUnknown ==
    /\ pc = "audit_item" /\ items # <<>>
    /\ ~Head(items).dir
    /\ classify(Head(items).name, config) = "unknown"
    /\ \E choice \in Choices, written \in BOOLEAN :
          LET cat == ChoiceCat(choice)
              ext == LearnedExt(Head(items).name)
          IN  /\ nprompts' = nprompts + 1
              /\ config' = [config EXCEPT ![cat] = Append(@, ext)]
              /\ IF written
                 THEN /\ store' = save_config(config')
                      /\ report' = File_(cat, Head(items))
                      /\ items' = Tail(items)
                      /\ learned' = learned \cup {<<ext, cat>>}
                      /\ UNCHANGED <<pc, exc>>
                 ELSE /\ pc' = "crashed"
                      /\ exc' = "OSError"
                      /\ UNCHANGED <<store, report, items, learned>>
    /\ UNCHANGED <<fs, log, selection, to_process, k, answer, master, res,
                   delq, audited, ninvoked, converted>>

\* run, lines 78-80: the audit has returned; the plan is printed and the
\* operator is asked to confirm.
Confirm ==
    /\ pc = "audit_item" /\ items = <<>>
    /\ \E a \in Answers : answer' = a
    /\ pc' = "decide"
    /\ UNCHANGED <<fs, store, config, log, exc, selection, to_process, k,
                   items, report, master, res, delq, history>>

\* A faulty decision that converts unless the answer is n.
DecideUnlessNo ==
    /\ pc = "decide"
    /\ IF Lower(answer) # "n"
       THEN /\ pc' = "convert"
            /\ UNCHANGED <<k, locals>>
       ELSE LoopNext
    /\ UNCHANGED <<fs, store, config, log, exc, selection, to_process,
                   history>>

\* run, lines 80-82: confirm = input(...).lower(); convert is called when
\* it is 'y', else the loop goes on.
Decide ==
    /\ pc = "decide"
    /\ IF Lower(answer) = "y"
       THEN /\ pc' = "convert"
            /\ UNCHANGED <<k, locals>>
       ELSE LoopNext
    /\ UNCHANGED <<fs, store, config, log, exc, selection, to_process,
                   history>>

\* A faulty entry-file lookup that takes any game file.
mastersUnfiltered(rep) == rep.game

\* A faulty convert that takes the last entry file of the bucket.
mastersLastFirst(rep) ==
    LET m == SelectSeq(rep.game,
                       LAMBDA f : InList(Lower(Suffix(f.name)), master_exts))
    IN  [i \in 1..Len(m) |-> m[Len(m) + 1 - i]]

\* convert, line 103
masters(rep) ==
    SelectSeq(rep.game, LAMBDA f : InList(Lower(Suffix(f.name)), master_exts))

\* convert, line 109
output(m) == File(WithSuffix(m.name, "chd"))

\* convert, lines 103-110: the entry file is looked up; without one convert
\* returns.
Convert ==
    /\ pc = "convert"
    /\ IF masters(report) = <<>>
       THEN /\ pc' = "ret"
            /\ master' = master
       ELSE /\ pc' = "invoke"
            /\ master' = masters(report)[1]
    /\ UNCHANGED <<fs, store, config, log, exc, selection, to_process, k,
                   items, report, answer, res, delq, history>>

\* convert, lines 114-115: the converter runs to its end; it may write the
\* output file and touches no other file.
Invoke ==
    /\ pc = "invoke"
    /\ \E r \in ConverterResults, wrote \in BOOLEAN :
          /\ res' = [returncode |-> r.returncode, stdout |-> r.stdout,
                     stderr |-> r.stderr, wrote |-> wrote, ran |-> TRUE]
          /\ fs' = IF wrote
                   THEN [fs EXCEPT ![folder] = @ \cup {output(master)}]
                   ELSE fs
    /\ ninvoked' = ninvoked + 1
    /\ pc' = "log"
    /\ UNCHANGED <<store, config, log, exc, selection, to_process, k, items,
                   report, answer, master, delq, audited, nprompts, learned,
                   converted>>

\* convert, line 118: the record written to the log (the timestamp left out)
LogRecord == [folder |-> folder, text |-> res.stdout]

\* A faulty convert that cleans up whatever the exit status.
AfterLogAlwaysClean == "unlink"

\* convert, lines 120-125: where convert goes after the log is written
AfterLog == IF res.returncode = 0 THEN "unlink" ELSE "ret"

\* A faulty cleanup that removes the entry file only.
CleanupEntryOnly == <<master>>

\* convert, line 122: the files the cleanup loop goes through
CleanupList == report.game

\* A faulty convert that opens the log for writing instead of appending.
WriteLogTruncating ==
    /\ pc = "log"
    /\ log' = <<LogRecord>>
    /\ pc' = AfterLog
    /\ delq' = IF pc' = "unlink" THEN CleanupList ELSE delq
    /\ UNCHANGED <<fs, store, config, exc, selection, to_process, k, items,
                   report, answer, master, res, history>>

\* A faulty convert that looks at the exit status and cleans up before it
\* writes the log.
WriteLogLate ==
    /\ pc = "log"
    /\ log' = log
    /\ pc' = AfterLog
    /\ delq' = IF pc' = "unlink" THEN CleanupList ELSE delq
    /\ UNCHANGED <<fs, store, config, exc, selection, to_process, k, items,
                   report, answer, master, res, history>>

\* convert, lines 117-121: the record is appended, then the exit status is
\* looked at.
WriteLog ==
    /\ pc = "log"
    /\ log' = Append(log, LogRecord)
    /\ pc' = AfterLog
    /\ delq' = IF pc' = "unlink" THEN CleanupList ELSE delq
    /\ UNCHANGED <<fs, store, config, exc, selection, to_process, k, items,
                   report, answer, master, res, history>>

\* convert, lines 122-123: one f.unlink() of the cleanup loop; unlink of a
\* missing file raises FileNotFoundError.
Unlink ==
    /\ pc = "unlink"
    /\ IF Head(delq) \in fs[folder]
       THEN /\ fs' = [fs EXCEPT ![folder] = @ \ {Head(delq)}]
            /\ delq' = Tail(delq)
            /\ pc' = IF Tail(delq) = <<>> THEN "ret" ELSE "unlink"
            /\ exc' = exc
       ELSE /\ pc' = "crashed"
            /\ exc' = "FileNotFoundError"
            /\ UNCHANGED <<fs, delq>>
    /\ UNCHANGED <<store, config, log, selection, to_process, k, items,
                   report, answer, master, res, history>>

\* run, line 76: convert has returned; the loop goes on.
Return ==
    /\ pc = "ret"
    /\ LoopNext
    /\ converted' = IF res.ran /\ res.returncode = 0
                    THEN converted \cup {folder}
                    ELSE converted
    /\ UNCHANGED <<fs, store, config, log, exc, selection, to_process,
                   audited, ninvoked, nprompts, learned>>

Next ==
    \/ Select
    \/ ParseSelection
    \/ AuditFolder
    \/ AuditDir
    \/ AuditKnown
    \/ AuditUnknown
    \/ Confirm
    \/ Decide
    \/ Convert
    \/ Invoke
    \/ WriteLog
    \/ Unlink
    \/ Return

Spec == Init /\ [][Next]_vars

\* ------------------------------------------------------------------------
\* ParseSpec: parse_selection on every selection expression of up to
\* MaxTokens tokens over the integers 0..MaxIndex, against every sorted folder
\* list of up to MaxFolders folders.

ParseTrees ==
    { [f \in Range(SubSeq(FolderNames, 1, n)) |-> {}] : n \in 0..MaxFolders }

Ints == {DigitStr[i + 1] : i \in 0..MaxIndex}

WideTokens ==
    {<<d>> : d \in Ints} \cup {<<a, b>> : a \in Ints, b \in Ints}
        \cup { <<"all">>, <<"ALL">>, <<"All">> }
        \cup { <<"x">>, <<"">>, <<"", "1">>, <<"1", "">>, <<"x", "2">>,
               <<"1", "2", "3">> }

WideSelections == UNION {[1..n -> WideTokens] : n \in 1..MaxTokens}

InitParse ==
    /\ fs \in ParseTrees
    /\ store = NoStore
    /\ config = load_config(store)
    /\ log = <<>>
    /\ pc = "select"
    /\ exc = "none"
    /\ selection = <<>>
    /\ to_process = <<>>
    /\ k = 0
    /\ items = <<>>
    /\ report = EmptyReport
    /\ answer = ""
    /\ master = NoFile
    /\ res = NoRes
    /\ delq = <<>>
    /\ audited = <<>>
    /\ ninvoked = 0
    /\ nprompts = 0
    /\ learned = {}
    /\ converted = {}

\* run, line 73, with the wider set of expressions.
SelectWide ==
    /\ pc = "select"
    /\ \E sel \in WideSelections : selection' = sel
    /\ pc' = "parse"
    /\ UNCHANGED <<fs, store, config, log, exc, to_process, k, locals,
                   history>>

NextParse ==
    \/ SelectWide
    \/ ParseSelection

ParseSpec == InitParse /\ [][NextParse]_vars

\* ------------------------------------------------------------------------
\* ClassifySpec: the audit of one entry, for every file name of up to MaxSegs
\* dot-separated segments over a small alphabet and a few taxonomies, among
\* them taxonomies with an extension in several categories.

SegAlphabet == {"", "disc", "iso", "ISO", "state", "auto"}

ClassifyNames ==
    { n \in UNION {[1..m -> SegAlphabet] : m \in 1..MaxSegs} :
        \E i \in DOMAIN n : n[i] # "" }

ClassifyEntries ==
    {File(n) : n \in ClassifyNames}
        \cup {Dir(n) : n \in {m \in ClassifyNames : Len(m) <= 2}}

ClassifyTaxonomies ==
    { default_data,
      LearnedData,
      [game   |-> <<".cue", ".iso.iso">>,
       save   |-> <<".iso", ".state.auto", ".disc">>,
       ignore |-> <<".iso", ".auto", "", ".disc">>],
      [game   |-> <<".state">>,
       save   |-> <<".state", ".auto.iso">>,
       ignore |-> <<".">>] }

InitClassify ==
    /\ \E e \in ClassifyEntries :
          /\ fs = [f \in {"Alpha"} |-> {e}]
          /\ items = <<e>>
    /\ config \in ClassifyTaxonomies
    /\ store = StoreOf(config)
    /\ log = <<>>
    /\ pc = "audit_item"
    /\ exc = "none"
    /\ selection = <<>>
    /\ to_process = <<"Alpha">>
    /\ k = 1
    /\ report = EmptyReport
    /\ answer = ""
    /\ master = NoFile
    /\ res = NoRes
    /\ delq = <<>>
    /\ audited = <<"Alpha">>
    /\ ninvoked = 0
    /\ nprompts = 0
    /\ learned = {}
    /\ converted = {}

NextClassify ==
    \/ AuditDir
    \/ AuditKnown
    \/ AuditUnknown

ClassifySpec == InitClassify /\ [][NextClassify]_vars

\* ------------------------------------------------------------------------
\* Properties

\* Some file or directory that exists before the step is gone after it.
Deletes == \E f \in DOMAIN fs : ~(fs[f] \subseteq fs'[f])

\* Every entry the audit filed, whatever its bucket.
Filed(rep) ==
    Range(rep.game) \cup Range(rep.save) \cup Range(rep.ignore)
        \cup Range(rep.unknown)

\* C1: in convert the side effects come in the order converter, log,
\* deletion: the log only ever grows by one record, written when the
\* converter has returned and not yet been logged; a step deletes only in the
\* cleanup loop, only files of the folder being converted, after exit status
\* 0 was observed and with the record of that very invocation in the log.
C1_SideEffectOrder ==
    [][ /\ log' # log =>
              /\ pc = "log" /\ res.ran
              /\ Len(log) + 1 = ninvoked
              /\ log' = Append(log, [folder |-> folder, text |-> res.stdout])
        /\ ninvoked' # ninvoked => (pc = "invoke" /\ Len(log) = ninvoked)
        /\ Deletes =>
              /\ pc = "unlink"
              /\ res.ran /\ res.returncode = 0
              /\ Len(log) = ninvoked
              /\ Last(log).folder = folder
              /\ \A f \in DOMAIN fs : f # folder => fs'[f] = fs[f]
      ]_vars

\* C1 witness: the cleanup loop has deleted a first file and has more to go.
C1_Witness ==
    /\ pc = "unlink"
    /\ delq # <<>>
    /\ \E e \in Range(report.game) : e \notin fs[folder]
    /\ Len(log) = 1

\* C2: when convert returns after a non-zero exit status, every file the
\* audit filed in the folder's game, save and ignore buckets still exists.
C2_FailureKeepsFiles ==
    (pc = "ret" /\ res.ran /\ res.returncode # 0) =>
        /\ Range(report.game) \subseteq fs[folder]
        /\ Range(report.save) \subseteq fs[folder]
        /\ Range(report.ignore) \subseteq fs[folder]

\* C2 witness: convert has returned from a failed conversion of a folder
\* with several game files.
C2_Witness ==
    /\ pc = "ret" /\ res.ran /\ res.returncode # 0
    /\ Len(report.game) > 1

\* C3: when convert returns after exit status 0, what is gone from the
\* folder is exactly its game bucket: the folder holds what the audit filed
\* (and the converter's output, if written) less every game-bucket file, so
\* every save and ignore entry and every directory is still there.
C3_SuccessDeletesGameBucket ==
    (pc = "ret" /\ res.ran /\ res.returncode = 0) =>
        /\ fs[folder] =
              (Filed(report) \cup
                  (IF res.wrote THEN {output(master)} ELSE {}))
              \ Range(report.game)
        /\ \A e \in Range(report.game) : e \notin fs[folder]
        /\ Range(report.save) \cup Range(report.ignore) \subseteq fs[folder]
        /\ \A e \in Filed(report) : e.dir => e \in fs[folder]

\* C3 witness: a successful conversion has returned for a folder whose game
\* bucket held a file other than the entry file and whose save bucket was
\* not empty.
C3_Witness ==
    /\ pc = "ret" /\ res.ran /\ res.returncode = 0
    /\ \E e \in Range(report.game) : e # master
    /\ report.save # <<>>

\* C4 (as claimed): when convert returns after the converter exited 0 having
\* written the output file, the output file exists and the entry file does
\* not.
C4_OutputSurvives ==
    (pc = "ret" /\ res.ran /\ res.returncode = 0 /\ res.wrote) =>
        /\ output(master) \in fs[folder]
        /\ master \notin fs[folder]

EntryPointSet == {".cue", ".gdi", ".cdi", ".iso", ".mds", ".ccd"}

\* C5: when convert is entered with no file of the game bucket having an
\* entry-point extension, it returns at once: the converter is not invoked,
\* the log and the files are unchanged.
C5_NoEntryPointAborts ==
    [][ ( /\ pc = "convert"
          /\ \A e \in Range(report.game) :
                Lower(Suffix(e.name)) \notin EntryPointSet )
        => /\ pc' = "ret"
           /\ ~res'.ran
           /\ UNCHANGED <<fs, log, ninvoked>>
      ]_vars

\* C5 witness: convert has returned without a conversion for a folder whose
\* game bucket was not empty.
C5_Witness ==
    /\ pc = "ret" /\ ~res.ran
    /\ report.game # <<>>

\* C6 (as claimed): an answer other than the token y goes on to the next
\* folder with the files, the log, the taxonomy and the store as they were
\* and without a converter invocation.
C6_DeclineExact ==
    [][ (pc = "decide" /\ answer # "y")
        => /\ pc' \in {"audit_folder", "done"}
           /\ k' = k + 1
           /\ UNCHANGED <<fs, log, config, store, ninvoked>>
      ]_vars

\* C6 (amended): an answer that is neither y nor Y goes on to the next
\* folder with the files, the log, the taxonomy and the store as they were
\* and without a converter invocation.
C6_DeclineAnyCase ==
    [][ (pc = "decide" /\ answer \notin {"y", "Y"})
        => /\ pc' \in {"audit_folder", "done"}
           /\ k' = k + 1
           /\ UNCHANGED <<fs, log, config, store, ninvoked>>
      ]_vars

\* C6 witness: the operator has declined a folder that has an entry file.
C6_Witness ==
    /\ pc = "decide"
    /\ answer \notin {"y", "Y"}
    /\ masters(report) # <<>>

\* C7 (as claimed): a run that got past the selection ends with every
\* folder occurrence of the parsed selection audited once, in selection
\* order.
C7_AllAuditedInOrder ==
    (pc \in {"done", "crashed"} /\ exc # "ValueError") => audited = to_process

\* C8 (as claimed): when the extension of the file about to be audited was
\* learned with category c, classify returns c for it, with the taxonomy in
\* memory and with the taxonomy a new run would load from the store.
C8_LearnedIsRemembered ==
    (pc = "audit_item" /\ items # <<>> /\ ~Head(items).dir) =>
        \A p \in learned :
            p[1] = JoinLower(Suffixes(Head(items).name)) =>
                /\ classify(Head(items).name, config) = p[2]
                /\ classify(Head(items).name, load_config(store)) = p[2]

\* C9: auditing a file whose looked-up extension is in some category of the
\* taxonomy shows no prompt, leaves the taxonomy and the store unchanged and
\* files the file under the first category, in the order game, save,
\* ignore, that holds the extension.
C9_KnownNeverPrompts ==
    [][ ( /\ pc = "audit_item" /\ items # <<>> /\ ~Head(items).dir
          /\ \E c \in CatSet : InList(ClassifyExt(Head(items).name), config[c]) )
        => /\ nprompts' = nprompts
           /\ UNCHANGED <<config, store>>
           /\ pc' = "audit_item"
           /\ LET ext == ClassifyExt(Head(items).name)
                  c == IF InList(ext, config.game) THEN "game"
                       ELSE IF InList(ext, config.save) THEN "save"
                       ELSE "ignore"
              IN  report' = [report EXCEPT ![c] = Append(@, Head(items))]
      ]_vars

\* C9 witness: a file whose extension is in two categories has been filed
\* without a prompt.
C9_Witness ==
    /\ pc = "audit_item"
    /\ nprompts = 0
    /\ File(<<"mem", "srm">>) \in Range(report.game)

\* C10 (as claimed): when the write of the store fails during a resolution
\* (a prompt was shown and the store does not hold the new taxonomy), the
\* audit goes on with the file filed in the chosen bucket and the extension
\* in the taxonomy in memory.
C10_SaveFailureTolerated ==
    [][ ( /\ pc = "audit_item"
          /\ nprompts' = nprompts + 1
          /\ store' # StoreOf(config') )
        => /\ pc' = "audit_item"
           /\ items' = Tail(items)
           /\ \E c \in CatSet :
                 /\ report' = [report EXCEPT ![c] = Append(@, Head(items))]
                 /\ config' = [config EXCEPT
                                  ![c] = Append(@, LearnedExt(Head(items).name))]
      ]_vars

\* C11: while the run goes on and the store has been written, the store
\* holds the taxonomy in memory and a load of it gives that taxonomy back:
\* at every later classification, prompt, converter invocation and
\* deletion nothing learned is missing from the store.
C11_StoreInSync ==
    (pc # "crashed" /\ store.exists) =>
        /\ store = StoreOf(config)
        /\ load_config(store) = config

\* C11 witness: a second extension has been learned and saved and the next
\* folder is about to be audited.
C11_Witness ==
    /\ pc = "audit_folder"
    /\ store.exists
    /\ nprompts = 2
    /\ Cardinality(learned) = 2

\* The integer a decimal digit stands for.
NumberOf(d) == CHOOSE n \in 0..9 : DigitStr[n + 1] = d

\* A token that is one non-negative integer or a start-end pair of them.
GoodToken(tok) ==
    /\ Len(tok) \in {1, 2}
    /\ \A j \in DOMAIN tok : tok[j] \in Range(DigitStr)

\* The expression is the single token all, in some letter case.
AllExpression(sel) ==
    sel \in { << <<"all">> >>, << <<"ALL">> >>, << <<"All">> >> }

RECURSIVE Ascending(_)
\* The numbers of a set in ascending order.
Ascending(S) ==
    IF S = {} THEN <<>>
    ELSE LET m == CHOOSE x \in S : \A y \in S : x <= y
         IN  <<m>> \o Ascending(S \ {m})

\* The indices a good token stands for: the integer, or start..end.
TokenIndices(tok) ==
    IF Len(tok) = 1 THEN <<NumberOf(tok[1])>>
    ELSE Ascending({n \in 0..9 : /\ NumberOf(tok[1]) <= n
                                  /\ n <= NumberOf(tok[2])})

RECURSIVE ExpectedIndices(_)
\* The indices of the tokens read left to right.
ExpectedIndices(sel) ==
    IF sel = <<>> THEN <<>>
    ELSE ExpectedIndices(Front(sel)) \o TokenIndices(Last(sel))

\* The folders at the indices below the number of folders, duplicates kept.
ExpectedFolders(sel, fl) ==
    LET kept == SelectSeq(ExpectedIndices(sel), LAMBDA i : i < Len(fl))
    IN  [j \in 1..Len(kept) |-> fl[kept[j] + 1]]

\* C12: parse_selection on a well-formed expression does not fail and
\* returns the whole folder list, in order, for all in any letter case, and
\* otherwise the folders at the indices of the tokens read left to right,
\* ranges expanded ascending (empty when start > end), indices that are not
\* below the number of folders dropped, duplicates kept.
C12_ParseSelection ==
    [][ ( /\ pc = "parse"
          /\ \/ AllExpression(selection)
             \/ \A i \in DOMAIN selection : GoodToken(selection[i]) )
        => /\ pc' # "crashed"
           /\ exc' = "none"
           /\ to_process' =
                 IF AllExpression(selection) THEN SortedDirs(fs)
                 ELSE ExpectedFolders(selection, SortedDirs(fs))
      ]_vars

\* C12 witness: of three folders the selection kept the second, the third
\* and the second again, as 1-2,1 does.
C12_Witness ==
    /\ pc = "audit_folder"
    /\ Len(SortedDirs(fs)) = 3
    /\ to_process = <<"Beta", "Delta", "Beta">>

\* C13: parsing an expression with a malformed token fails with the run
\* ended at once and nothing touched, whatever the other tokens are; a run
\* that has ended takes no further step, and a run ended by the parse error
\* has audited no folder, shown no prompt, invoked no converter and written
\* no log record.
C13_MalformedAborts ==
    /\ []( (pc = "parse" \/ exc = "ValueError") =>
              /\ audited = <<>> /\ nprompts = 0 /\ ninvoked = 0
              /\ log = <<>> )
    /\ [][ /\ pc # "crashed"
           /\ ( /\ pc = "parse"
                /\ ~AllExpression(selection)
                /\ \E i \in DOMAIN selection : ~GoodToken(selection[i]) )
              => /\ pc' = "crashed"
                 /\ exc' = "ValueError"
                 /\ UNCHANGED <<fs, log, config, store, audited, nprompts,
                                ninvoked>>
       ]_vars

\* C13 witness: the run was ended by the parse error of an expression whose
\* first token is valid.
C13_Witness ==
    /\ pc = "crashed"
    /\ exc = "ValueError"
    /\ Len(selection) = 2
    /\ selection[1] = <<"0">>

\* C14: the log holds one record per converter invocation that has returned
\* and been logged, whatever its exit status; every step keeps the records
\* already in the log as they are and in place, the step after the converter
\* returned adds exactly one record, for the folder just converted, at the
\* end, and no other step changes the log.
C14_LogAppendOnly ==
    /\ [](Len(log) = IF pc = "log" THEN ninvoked - 1 ELSE ninvoked)
    /\ [][ /\ Len(log') >= Len(log)
           /\ SubSeq(log', 1, Len(log)) = log
           /\ pc = "log" =>
                 /\ Len(log') = Len(log) + 1
                 /\ Last(log').folder = folder
           /\ pc # "log" => Len(log') = Len(log)
       ]_vars

\* C14 witness: two invocations have been logged, the second having exited
\* non-zero.
C14_Witness ==
    /\ pc = "ret"
    /\ res.ran
    /\ res.returncode # 0
    /\ Len(log) = 2
    /\ ninvoked = 2

\* The lines of part appear in text, together and in order.
Contains(text, part) ==
    \E i \in 0..(Len(text) - Len(part)) :
        SubSeq(text, i + 1, i + Len(part)) = part

\* C15: once an invocation has been logged, the last record of the log names
\* the folder and holds both the standard output and the standard error the
\* converter emitted.
C15_RecordHoldsOutput ==
    (pc \in {"unlink", "ret"} /\ res.ran) =>
        /\ Last(log).folder = folder
        /\ Contains(Last(log).text, res.stdout)
        /\ Contains(Last(log).text, res.stderr)

\* The lower-cased full compound suffix of a file name.
CompoundSuffix(segs) == JoinLower(Suffixes(segs))

\* The lower-cased final suffix of a file name.
FinalSuffix(segs) == Lower(Suffix(segs))

\* The first category, in the order game, save, ignore, whose list holds the
\* key; unknown when none does.
FirstCategory(key, cfg) ==
    IF key \in Range(cfg.game) THEN "game"
    ELSE IF key \in Range(cfg.save) THEN "save"
    ELSE IF key \in Range(cfg.ignore) THEN "ignore"
    ELSE "unknown"

\* What the audit of the file at the head of the listing does when classify
\* returns cat: it prompts for unknown, and otherwise files the entry in the
\* bucket cat without a prompt.
AuditsAs(cat) ==
    IF cat = "unknown"
    THEN nprompts' = nprompts + 1
    ELSE /\ nprompts' = nprompts
         /\ report' = [report EXCEPT ![cat] = Append(@, Head(items))]

\* Original statement of C16: classify looks up the lower-cased full compound
\* suffix and nothing else.
C16_CompoundOnly ==
    [][ (pc = "audit_item" /\ items # <<>> /\ ~Head(items).dir) =>
            AuditsAs(FirstCategory(CompoundSuffix(Head(items).name), config))
      ]_vars

\* C16: classify returns the first category, in the order game, save,
\* ignore, whose list holds the file's lower-cased full compound suffix or,
\* when the compound suffix is empty, its lower-cased final suffix, and
\* unknown when none holds it; a file whose final suffix is in the taxonomy
\* and whose compound suffix is not empty and not in the taxonomy is unknown.
C16_CompoundOrFinal ==
    [][ (pc = "audit_item" /\ items # <<>> /\ ~Head(items).dir) =>
            LET name     == Head(items).name
                compound == CompoundSuffix(name)
                key      == IF compound = "" THEN FinalSuffix(name)
                            ELSE compound
            IN  /\ AuditsAs(FirstCategory(key, config))
                /\ ( /\ compound # ""
                     /\ FirstCategory(compound, config) = "unknown"
                     /\ FirstCategory(FinalSuffix(name), config) # "unknown" )
                   => nprompts' = nprompts + 1
      ]_vars

\* C16 witness: a file with an empty compound suffix was filed as game by its
\* final suffix, which the taxonomy holds in game only.
C16_Witness ==
    /\ items = <<>>
    /\ nprompts = 0
    /\ \E e \in Range(report.game) :
          /\ ~e.dir
          /\ CompoundSuffix(e.name) = ""
          /\ FinalSuffix(e.name) = ".iso"

\* The number of places an entry has in a list.
Occurrences(seq, e) == Cardinality({i \in DOMAIN seq : seq[i] = e})

\* C17: the unknown bucket of the report is always empty and the taxonomy
\* has the categories game, save and ignore only; while a folder is audited
\* and until it is converted, each child is either still to be audited or in
\* exactly one of the buckets game, save, ignore; each audit step files the
\* next child of the listing at the end of one of these buckets, and a
\* directory at the end of ignore with no prompt and no change of the
\* taxonomy.
C17_AuditReport ==
    /\ []( /\ report.unknown = <<>>
           /\ DOMAIN config = CatSet
           /\ pc \in {"audit_item", "decide", "convert"} =>
                 /\ Filed(report) \cup Range(items) = fs[folder]
                 /\ \A e \in fs[folder] :
                       Occurrences(report.game, e)
                           + Occurrences(report.save, e)
                           + Occurrences(report.ignore, e)
                           + Occurrences(items, e) = 1 )
    /\ [][ (pc = "audit_item" /\ items # <<>> /\ pc' # "crashed") =>
              /\ items' = Tail(items)
              /\ \E c \in CatSet :
                    /\ report' = [report EXCEPT ![c] = Append(@, Head(items))]
                    /\ Head(items).dir =>
                          /\ c = "ignore"
                          /\ UNCHANGED <<nprompts, config, store, learned>>
       ]_vars

\* C17 witness: an audit has returned a report with a directory in ignore,
\* and a file in save.
C17_Witness ==
    /\ pc = "decide"
    /\ \E e \in Range(report.ignore) : e.dir
    /\ report.save # <<>>
    /\ Filed(report) = fs[folder]

\* The places of the entry-point files in the game bucket.
EntryPlaces == {i \in DOMAIN report.game :
                   Lower(Suffix(report.game[i].name)) \in EntryPointSet}

\* C18: when convert is entered with an entry-point file in the game bucket,
\* it goes on to the converter without a prompt, with the first such file of
\* the bucket as input; the converter is entered from there only, is run
\* once, and the only file it may add is the input's name with its final
\* extension replaced by chd.
C18_FirstEntryFile ==
    [][ /\ (pc = "convert" /\ EntryPlaces # {}) =>
              /\ pc' = "invoke"
              /\ master' = report.game[CHOOSE i \in EntryPlaces :
                                          \A j \in EntryPlaces : i <= j]
              /\ UNCHANGED <<nprompts, ninvoked, fs, log>>
        /\ pc' = "invoke" => pc = "convert"
        /\ pc = "invoke" =>
              /\ ~res.ran /\ res'.ran
              /\ ninvoked' = ninvoked + 1
              /\ pc' = "log"
              /\ nprompts' = nprompts
              /\ fs'[folder] \ fs[folder] \subseteq
                    {File(Append(Front(master.name), "chd"))}
              /\ fs[folder] \subseteq fs'[folder]
      ]_vars

\* C18 witness: the converter has run on the first of two entry-point files
\* of the game bucket and has written the output.
C18_Witness ==
    /\ pc = "log"
    /\ Cardinality(EntryPlaces) = 2
    /\ master = report.game[1]
    /\ Len(master.name) = 3
    /\ File(<<"game", "v1", "chd">>) \in fs[folder]

\* The extensions a taxonomy holds.
Extensions(cfg) == Range(cfg.game) \cup Range(cfg.save) \cup Range(cfg.ignore)

\* No extension is in two categories of the taxonomy.
Exclusive(cfg) ==
    \A c \in CatSet, d \in CatSet :
        c # d => Range(cfg[c]) \cap Range(cfg[d]) = {}

\* C19: a step that changes the taxonomy appends to one category one
\* extension that was in no category; every extension that was in the
\* taxonomy keeps the category classify gives it, and a taxonomy with no
\* extension in two categories stays so.
C19_LearningOnlyAdds ==
    [][ config' # config =>
          /\ \E c \in CatSet :
                \E ext \in Extensions(config') \ Extensions(config) :
                    config' = [config EXCEPT ![c] = Append(@, ext)]
          /\ \A ext \in Extensions(config) :
                FirstCategory(ext, config') = FirstCategory(ext, config)
          /\ Exclusive(config) => Exclusive(config')
      ]_vars

\* The steps of run that belong to the folder at position k.
FolderSteps ==
    {"audit_folder", "audit_item", "decide", "convert", "invoke", "log",
     "unlink", "ret"}

\* C20: in a later occurrence of a folder that an earlier occurrence of the
\* same selection converted with exit status 0, the audit starts afresh, the
\* game bucket holds no entry-point file, the converter is not invoked and
\* no archival output is deleted.
C20_NoSecondConversion ==
    /\ []( (pc \in FolderSteps /\ folder \in converted) =>
              /\ EntryPlaces = {}
              /\ pc \notin {"invoke", "log", "unlink"}
              /\ ~res.ran )
    /\ [][ (pc \in FolderSteps /\ folder \in converted) =>
              /\ ninvoked' = ninvoked
              /\ pc = "audit_folder" =>
                    /\ audited' = Append(audited, folder)
                    /\ report' = EmptyReport
              /\ \A f \in DOMAIN fs : \A e \in fs[f] \ fs'[f] :
                    Last(e.name) # "chd"
       ]_vars

====
